---- MODULE Spec2Model ----
(***************************************************************************)
(* ct-facts-exporter: the SQLite store (db.ts), the ChurchTools client     *)
(* (churchtools-client.ts), the sync service (sync.ts), the HTTP triggers  *)
(* (index.ts) and the Grafana query handlers (grafana.ts).                 *)
(***************************************************************************)
EXTENDS Integers, Sequences, FiniteSets, TLC

VARIABLES
    db,               \* the SQLite database: tables facts, events, event_facts, and the AUTOINCREMENT counter
    now,              \* wall clock, in hours (CURRENT_TIMESTAMP / Date.now())
    proc,             \* the process: "auth" | "initialSync" | "serving" | "exited" (code 1) | "stopped" (code 0)
    isAuthenticated,  \* ChurchToolsClient.isAuthenticated
    isSyncing,        \* DataSyncService.isSyncing
    syncTask,         \* DataSyncService.syncTask: "null" | "scheduled" | "crashed"
    pass,             \* the suspended syncData / syncYear calls, one per slot
    reply,            \* what the latest trigger got back
    last,             \* the sync pass that ended latest
    nPasses,          \* the number of passes started so far
    hist,             \* store-level runs: the payload applied latest, the calls made of it, and the store after its first application
    q,                \* query-level runs: the latest request and its response
    tz                \* the offset of the process's local time from UTC, in hours (TZ of the environment)

vars == <<tz, db, now, proc, isAuthenticated, isSyncing, syncTask, pass, reply, last, nPasses, hist, q>>

-----------------------------------------------------------------------------
(* Bounds of the model *)

MaxPasses == 2
MaxSlots == 2
MaxClock == 2

Slots == 1..MaxSlots

\* the time zones the process is run in: west of UTC, UTC (the image), east of UTC
TimeZones == {-1, 0, 1}

-----------------------------------------------------------------------------
(* Values *)

\* SQL NULL / JS undefined in a text position
Null == "<null>"

\* a JS value of type number / string / undefined (typeof is the field t)
Num(n) == [t |-> "number", n |-> n, s |-> ""]
Str(s) == [t |-> "string", n |-> 0, s |-> s]
Undefined == [t |-> "undefined", n |-> 0, s |-> ""]
\* SQL NULL in the REAL column event_facts.value
SqlNull == [t |-> "null", n |-> 0, s |-> ""]

\* String(v) of a JS value that is not a number
String(v) == IF v.t = "string" THEN v.s ELSE "undefined"

\* x || null on a text value: "" and undefined are falsy
OrNull(x) == IF x = "" \/ x = Null THEN Null ELSE x

\* A timestamp string such as "2024-12-31T10:00:00Z": year, month, day and the
\* second of the day (0 is midnight).
Date(y, m, d, s) == [y |-> y, m |-> m, d |-> d, s |-> s]
NoDate == Date(0, 0, 0, 0)

Max(S) == CHOOSE x \in S : \A y \in S : y <= x

-----------------------------------------------------------------------------
(* db.ts: the schema and the prepared statements *)

\* the database right after the CREATE TABLE IF NOT EXISTS of a fresh data.db
EmptyDb == [facts |-> {}, events |-> {}, event_facts |-> {}, seq |-> 0]

\* SQL NULL in a position that holds the number of a timestamp
NullTime == -1

\* SQLite datetime(x): the timestamp as a number that orders like the text it returns
\* (seconds since 1970 in months of 31 days); NULL for a text that is no date
datetime(x) ==
    IF x = NoDate THEN NullTime
    ELSE ((((x.y - 1970) * 12 + (x.m - 1)) * 31 + (x.d - 1)) * 86400) + x.s

\* a >= b and a <= b as terms of a WHERE clause: a comparison with NULL is NULL, and
\* the clause keeps no row for it
SqlGe(a, b) == a # NullTime /\ b # NullTime /\ a >= b
SqlLe(a, b) == a # NullTime /\ b # NullTime /\ a <= b

\* SQLite strftime('%Y-%m', x)
strftimeYm(x) == <<x.y, x.m>>

\* `${year}-01-01` and `${year}-12-31`: a date without a time is midnight to datetime()
YearFrom(year) == Date(year, 1, 1, 0)
YearTo(year) == Date(year, 12, 31, 0)

\* NOT NULL constraints: the statement throws SQLITE_CONSTRAINT
insertFactThrows(fact) == fact.name = Null \/ fact.name_translated = Null \/ fact.type = Null
insertEventThrows(event) == event.name = Null \/ event.start_date = NoDate
\* NOT NULL, and FOREIGN KEY (event_id) REFERENCES events(id), FOREIGN KEY (fact_id)
\* REFERENCES facts(id): better-sqlite3 opens the database with foreign keys enforced
insertEventFactThrows(d, eventFact) ==
    \/ eventFact.event_id = 0 \/ eventFact.fact_id = 0
    \/ eventFact.event_id \notin {e.id : e \in d.events}
    \/ eventFact.fact_id \notin {f.id : f \in d.facts}

\* a plain INSERT into a facts table whose id is not a key: the old row stays
insertFact_insertOnly(d, fact, t) ==
    [d EXCEPT !.facts = @ \cup
        {[id |-> fact.id, name |-> fact.name, name_translated |-> fact.name_translated,
          type |-> fact.type, unit |-> OrNull(fact.unit), sort_key |-> fact.sort_key,
          created_at |-> t]}]

\* INSERT OR REPLACE INTO facts: the row with the same primary key is deleted,
\* the new row gets created_at = CURRENT_TIMESTAMP
insertFact(d, fact, t) ==
    [d EXCEPT !.facts = {r \in @ : r.id # fact.id} \cup
        {[id |-> fact.id, name |-> fact.name, name_translated |-> fact.name_translated,
          type |-> fact.type, unit |-> OrNull(fact.unit), sort_key |-> fact.sort_key,
          created_at |-> t]}]

\* INSERT OR REPLACE INTO events
insertEvent(d, event, t) ==
    [d EXCEPT !.events = {r \in @ : r.id # event.id} \cup
        {[id |-> event.id, name |-> event.name, start_date |-> event.start_date,
          end_date |-> OrNull(event.end_date), calendar_id |-> event.calendar_id,
          created_at |-> t]}]

\* the row id an AUTOINCREMENT table gives the next row: one more than the largest ever used
NextRowId(d) == d.seq + 1

\* a plain INSERT into a table without the UNIQUE(event_id, fact_id) constraint
insertEventFact_insertOnly(d, eventFact, t) ==
    LET isNumeric == eventFact.value.t = "number" IN
    [d EXCEPT
        !.event_facts = @ \cup
            {[id |-> d.seq + 1,
              event_id |-> eventFact.event_id,
              fact_id |-> eventFact.fact_id,
              event_name |-> OrNull(eventFact.event_name),
              value |-> IF isNumeric THEN eventFact.value ELSE SqlNull,
              value_text |-> IF ~isNumeric THEN String(eventFact.value) ELSE Null,
              modified_date |-> OrNull(eventFact.modified_date),
              created_at |-> t]},
        !.seq = d.seq + 1]

\* a REPLACE that clears every sample of the event before it inserts
insertEventFact_replaceEvent(d, eventFact, t) ==
    LET isNumeric == eventFact.value.t = "number" IN
    [d EXCEPT
        !.event_facts = {r \in @ : r.event_id # eventFact.event_id} \cup
            {[id |-> d.seq + 1,
              event_id |-> eventFact.event_id,
              fact_id |-> eventFact.fact_id,
              event_name |-> OrNull(eventFact.event_name),
              value |-> IF isNumeric THEN eventFact.value ELSE SqlNull,
              value_text |-> IF ~isNumeric THEN String(eventFact.value) ELSE Null,
              modified_date |-> OrNull(eventFact.modified_date),
              created_at |-> t]},
        !.seq = d.seq + 1]

\* INSERT OR IGNORE: on a conflict the row in the table stays
insertEventFact_keepFirst(d, eventFact, t) ==
    LET isNumeric == eventFact.value.t = "number" IN
    IF \E r \in d.event_facts : r.event_id = eventFact.event_id /\ r.fact_id = eventFact.fact_id
    THEN d
    ELSE [d EXCEPT
        !.event_facts = @ \cup
            {[id |-> d.seq + 1,
              event_id |-> eventFact.event_id,
              fact_id |-> eventFact.fact_id,
              event_name |-> OrNull(eventFact.event_name),
              value |-> IF isNumeric THEN eventFact.value ELSE SqlNull,
              value_text |-> IF ~isNumeric THEN String(eventFact.value) ELSE Null,
              modified_date |-> OrNull(eventFact.modified_date),
              created_at |-> t]},
        !.seq = d.seq + 1]

\* a write that puts the incoming value into the value column whatever its type
insertEventFact_untyped(d, eventFact, t) ==
    [d EXCEPT
        !.event_facts = {r \in @ : ~(r.event_id = eventFact.event_id /\ r.fact_id = eventFact.fact_id)} \cup
            {[id |-> d.seq + 1,
              event_id |-> eventFact.event_id,
              fact_id |-> eventFact.fact_id,
              event_name |-> OrNull(eventFact.event_name),
              value |-> eventFact.value,
              value_text |-> Null,
              modified_date |-> OrNull(eventFact.modified_date),
              created_at |-> t]},
        !.seq = d.seq + 1]

\* INSERT OR REPLACE INTO event_facts: UNIQUE(event_id, fact_id) decides the conflict
insertEventFact(d, eventFact, t) ==
    LET isNumeric == eventFact.value.t = "number" IN
    [d EXCEPT
        !.event_facts = {r \in @ : ~(r.event_id = eventFact.event_id /\ r.fact_id = eventFact.fact_id)} \cup
            {[id |-> NextRowId(d),
              event_id |-> eventFact.event_id,
              fact_id |-> eventFact.fact_id,
              event_name |-> OrNull(eventFact.event_name),
              value |-> IF isNumeric THEN eventFact.value ELSE SqlNull,
              value_text |-> IF ~isNumeric THEN String(eventFact.value) ELSE Null,
              modified_date |-> OrNull(eventFact.modified_date),
              created_at |-> t]},
        !.seq = NextRowId(d)]

\* the null getLastSyncTime returns for an empty events table
NoSync == -100

\* SELECT MAX(created_at) FROM events, then new Date(result.last_sync): created_at is
\* the text of CURRENT_TIMESTAMP, a UTC time written without a zone, and new Date reads
\* a time without a zone as local time, so the instant it gives is the stored one
\* moved back by the offset of the local zone
getLastSyncTime(d) ==
    IF d.events = {} THEN NoSync ELSE Max({r.created_at : r \in d.events}) - tz

\* the elements of a JS array / the values bound to IN (?, ?, ...)
Elems(seq) == {seq[k] : k \in 1..Len(seq)}

\* the join without the two conditions on datetime(e.start_date)
JoinEvents_anyTime(d, factId, from, to) ==
    { [ef |-> ef, e |-> e] : ef \in {x \in d.event_facts : x.fact_id = factId /\ x.value # SqlNull},
                             e \in d.events }

\* FROM event_facts ef JOIN events e ON ef.event_id = e.id
\* WHERE ef.fact_id = ? AND ef.value IS NOT NULL
\*   AND datetime(e.start_date) >= datetime(?) AND datetime(e.start_date) <= datetime(?)
JoinEvents(d, factId, from, to) ==
    { [ef |-> ef, e |-> e] : ef \in {x \in d.event_facts : x.fact_id = factId /\ x.value # SqlNull},
                             e \in {y \in d.events : /\ SqlGe(datetime(y.start_date), datetime(from))
                                                     /\ SqlLe(datetime(y.start_date), datetime(to))} }

Joined(d, factId, from, to) == {j \in JoinEvents(d, factId, from, to) : j.ef.event_id = j.e.id}

\* the IN clause on the name of the joined event instead of the cached label
InNames_byEventName(j, eventNames) == j.e.name \in Elems(eventNames)

\* ... AND ef.event_name IN (?, ...): NULL is in no list
InNames(j, eventNames) == j.ef.event_name # Null /\ j.ef.event_name \in Elems(eventNames)

\* the columns the two raw statements select, with JOIN facts f ON ef.fact_id = f.id
RawRows(d, js) ==
    { [event_id |-> p[1].ef.event_id, fact_id |-> p[1].ef.fact_id, value |-> p[1].ef.value,
       event_name |-> p[1].ef.event_name, event_name_full |-> p[1].e.name,
       start_date |-> p[1].e.start_date, end_date |-> p[1].e.end_date,
       fact_name |-> p[2].name, unit |-> p[2].unit] :
      p \in {x \in js \X d.facts : x[2].id = x[1].ef.fact_id} }

\* stmts.getEventFactsByTimeRange, as the set of its rows
getEventFactsByTimeRange(d, factId, from, to) == RawRows(d, Joined(d, factId, from, to))

\* database.getEventFactsByTimeRangeFiltered, as the set of its rows
getEventFactsByTimeRangeFiltered(d, factId, from, to, eventNames) ==
    IF Len(eventNames) = 0 THEN getEventFactsByTimeRange(d, factId, from, to)
    ELSE RawRows(d, {j \in Joined(d, factId, from, to) : InNames(j, eventNames)})

\* the rows the aggregate statements see: eventNamesFilter is empty without names
Matching(d, factId, from, to, eventNames) ==
    IF Len(eventNames) > 0
    THEN {j \in Joined(d, factId, from, to) : InNames(j, eventNames)}
    ELSE Joined(d, factId, from, to)

\* SUM(ef.value) over a set of joined rows
RECURSIVE SumValue(_)
SumValue(js) ==
    IF js = {} THEN 0 ELSE LET j == CHOOSE x \in js : TRUE IN j.ef.value.n + SumValue(js \ {j})

\* the sequence of the elements of a set of <<year, month>> in ascending order
RECURSIVE SortMonths(_)
SortMonths(ms) ==
    IF ms = {} THEN <<>>
    ELSE LET m == CHOOSE x \in ms : \A y \in ms : x[1] < y[1] \/ (x[1] = y[1] /\ x[2] <= y[2])
         IN  <<m>> \o SortMonths(ms \ {m})

\* database.getMonthlyAggregateByFact: GROUP BY strftime('%Y-%m', e.start_date) ORDER BY month
getMonthlyAggregateByFact(d, factId, from, to, eventNames) ==
    LET js == Matching(d, factId, from, to, eventNames)
        months == SortMonths({strftimeYm(j.e.start_date) : j \in js})
    IN  [k \in 1..Len(months) |->
            LET g == {j \in js : strftimeYm(j.e.start_date) = months[k]} IN
            [month |-> months[k], value |-> SumValue(g), count |-> Cardinality(g)]]

\* database.getYearlySum: from `${year}-01-01` to `${year}-12-31`; value: result.value || 0
getYearlySum(d, factId, year, eventNames) ==
    LET js == Matching(d, factId, YearFrom(year), YearTo(year), eventNames) IN
    [value |-> IF js = {} THEN 0 ELSE SumValue(js), count |-> Cardinality(js)]

\* a fraction in lowest terms: the REAL an AVG returns, kept exact
RECURSIVE Gcd(_, _)
Gcd(a, b) == IF b = 0 THEN a ELSE Gcd(b, a % b)
Rat(num, den) == IF num = 0 THEN [num |-> 0, den |-> 1]
                 ELSE [num |-> num \div Gcd(num, den), den |-> den \div Gcd(num, den)]

\* database.getYearlyMean: AVG(ef.value), COUNT(*); value: result.value || 0
getYearlyMean(d, factId, year, eventNames) ==
    LET js == Matching(d, factId, YearFrom(year), YearTo(year), eventNames) IN
    [value |-> IF js = {} THEN Rat(0, 1) ELSE Rat(SumValue(js), Cardinality(js)),
     count |-> Cardinality(js)]

-----------------------------------------------------------------------------
(* The upstream system, as far as the client sees it *)

\* GET /event/masterdata: the metric definitions, or no facts field at all
CTFact(id, type, unit) ==
    [id |-> id, name |-> "fact", nameTranslated |-> "Fact", type |-> type, unit |-> unit, sortKey |-> id]
MasterDataResponses ==
    { [ok |-> FALSE, hasFacts |-> FALSE, facts |-> <<>>],
      [ok |-> TRUE, hasFacts |-> FALSE, facts |-> <<>>],
      [ok |-> TRUE, hasFacts |-> TRUE, facts |-> <<CTFact(1, "number", "p"), CTFact(2, "select", Null)>>] }

\* GET /events: the occurrences; id 0 stands for a missing id, name Null for a missing name
CTEvent(id, name) ==
    [id |-> id, name |-> name, startDate |-> Date(2024, id, 15, 36000), endDate |-> Null, calendarId |-> 0]
EventLists ==
    { <<>>,
      <<CTEvent(1, "A"), CTEvent(2, "A")>>,
      <<CTEvent(1, "B"), CTEvent(2, Null)>>,
      <<CTEvent(0, "A"), CTEvent(1, "B")>>,
      <<CTEvent(0, "A")>> }
EventsResponses ==
    { [ok |-> FALSE, events |-> <<>>] } \cup { [ok |-> TRUE, events |-> l] : l \in EventLists }

\* GET /events/{id}/facts: the samples of one occurrence, without the eventId
FactTemplates ==
    { << [factId |-> 1, value |-> Num(1)] >>,
      << [factId |-> 1, value |-> Num(2)], [factId |-> 2, value |-> Str("x")] >> }
FactsResponses ==
    { [ok |-> FALSE, tpl |-> <<>>] } \cup { [ok |-> TRUE, tpl |-> l] : l \in FactTemplates }
CTEventFacts(eventId, tpl) ==
    [k \in 1..Len(tpl) |->
        [eventId |-> eventId, factId |-> tpl[k].factId, value |-> tpl[k].value, modifiedDate |-> Null]]

-----------------------------------------------------------------------------
(* churchtools-client.ts *)

batchSize == 10

\* getMasterData: throws when not authenticated or when the request fails
getMasterData(auth, r) ==
    [threw |-> ~auth \/ ~r.ok, data |-> [hasFacts |-> r.hasFacts, facts |-> r.facts]]

\* getEvents with the catch of getEventFacts: a failed request gives []
getEvents_swallows(auth, r) == [threw |-> ~auth, events |-> IF r.ok THEN r.events ELSE <<>>]

\* getEvents: throws when not authenticated or when the request fails
getEvents(auth, r) == [threw |-> ~auth \/ ~r.ok, events |-> r.events]

\* getEventFacts: throws when not authenticated; a failed request is caught, logged
\* and gives [] instead of throwing
getEventFacts(auth, eventId, r) ==
    [threw |-> ~auth, facts |-> IF r.ok THEN CTEventFacts(eventId, r.tpl) ELSE <<>>]

\* batch.map(event => event.id ? this.getEventFacts(event.id) : Promise.resolve([])),
\* Promise.all, .flat(): the samples of the batch in the order of its events
RECURSIVE BatchFacts(_, _, _, _)
BatchFacts(auth, batch, rs, k) ==
    IF k > Len(batch) THEN <<>>
    ELSE (IF batch[k].id # 0 THEN getEventFacts(auth, batch[k].id, rs[k]).facts ELSE <<>>)
         \o BatchFacts(auth, batch, rs, k + 1)

\* Promise.all rejects when one of the calls does
BatchThrew(auth, batch, rs) ==
    \E k \in 1..Len(batch) : batch[k].id # 0 /\ getEventFacts(auth, batch[k].id, rs[k]).threw

\* what the upstream system answered to the sample requests of the batch
BatchResp(batch, rs) ==
    [k \in 1..Len(batch) |-> [eventId |-> batch[k].id, ok |-> rs[k].ok, tpl |-> rs[k].tpl]]

Min2(a, b) == IF a < b THEN a ELSE b

-----------------------------------------------------------------------------
(* sync.ts: DataSyncService *)

\* database.upsertFact(...), lines 26 / 106: the object database of db.ts has no
\* property of this name, the call throws TypeError before anything is written
upsertFactThrows(fact) == TRUE

\* the argument objects syncData / syncYear build for the three writes
FactRows(masterData) ==
    IF masterData.hasFacts
    THEN [k \in 1..Len(masterData.facts) |->
            [id |-> masterData.facts[k].id, name |-> masterData.facts[k].name,
             name_translated |-> masterData.facts[k].nameTranslated,
             type |-> masterData.facts[k].type, unit |-> masterData.facts[k].unit,
             sort_key |-> masterData.facts[k].sortKey]]
    ELSE <<>>

HasId(e) == e.id # 0

EventRows(events) ==
    LET es == SelectSeq(events, HasId) IN
    [k \in 1..Len(es) |->
        [id |-> es[k].id, name |-> es[k].name, start_date |-> es[k].startDate,
         end_date |-> es[k].endDate, calendar_id |-> es[k].calendarId]]

\* new Map(events.map(e => [e.id, e])).get(id)?.name: the last event with the id wins
eventsMapName(events, id) ==
    LET ks == {k \in 1..Len(events) : events[k].id = id} IN
    IF ks = {} THEN Null ELSE events[Max(ks)].name

EventFactRows(events, allFacts) ==
    [k \in 1..Len(allFacts) |->
        [event_id |-> allFacts[k].eventId, fact_id |-> allFacts[k].factId,
         value |-> allFacts[k].value, modified_date |-> allFacts[k].modifiedDate,
         event_name |-> eventsMapName(events, allFacts[k].eventId)]]

\* the calls of the write loops: "fact" is database.upsertFact as sync.ts calls it,
\* "insertFact", "event" and "eventFact" are database.insertFact, insertEvent and
\* insertEventFact
Throws(d, kind, row) ==
    CASE kind = "fact" -> upsertFactThrows(row)
      [] kind = "insertFact" -> insertFactThrows(row)
      [] kind = "event" -> insertEventThrows(row)
      [] kind = "eventFact" -> insertEventFactThrows(d, row)

Exec(d, kind, row, t) ==
    CASE kind = "fact" -> d
      [] kind = "insertFact" -> insertFact(d, row, t)
      [] kind = "event" -> insertEvent(d, row, t)
      [] kind = "eventFact" -> insertEventFact(d, row, t)

\* a for loop of writes: a statement that breaks a constraint throws and ends the
\* loop; the rows written before it stay written (no transaction is open)
RECURSIVE RunWrites(_, _, _, _, _)
RunWrites(d, kind, rows, k, t) ==
    IF k > Len(rows) THEN [db |-> d, threw |-> FALSE, n |-> Len(rows)]
    ELSE IF Throws(d, kind, rows[k]) THEN [db |-> d, threw |-> TRUE, n |-> k - 1]
    ELSE RunWrites(Exec(d, kind, rows[k], t), kind, rows, k + 1, t)

Repeat(x, n) == [k \in 1..n |-> x]

\* the two loops in the other order: the event facts loop, then the events loop
WritePhase_samplesFirst(d, events, allFacts, t) ==
    LET r1 == RunWrites(d, "eventFact", EventFactRows(events, allFacts), 1, t)
        r2 == RunWrites(r1.db, "event", EventRows(events), 1, t)
    IN  IF r1.threw
        THEN [db |-> r1.db, threw |-> TRUE, log |-> Repeat("eventFact", r1.n)]
        ELSE [db |-> r2.db, threw |-> r2.threw,
              log |-> Repeat("eventFact", r1.n) \o Repeat("event", r2.n)]

\* lines 55-78 / 126-149: the events loop, then the event facts loop
WritePhase(d, events, allFacts, t) ==
    LET r1 == RunWrites(d, "event", EventRows(events), 1, t)
        r2 == RunWrites(r1.db, "eventFact", EventFactRows(events, allFacts), 1, t)
    IN  IF r1.threw
        THEN [db |-> r1.db, threw |-> TRUE, log |-> Repeat("event", r1.n)]
        ELSE [db |-> r2.db, threw |-> r2.threw,
              log |-> Repeat("event", r1.n) \o Repeat("eventFact", r2.n)]

\* a suspended call: where it waits, its locals, and what it has seen and done so far
\* (db0, t0: the store and the time when it began; fatal: the request that failed
\* upstream; resp: the answers to its sample requests; log: its writes; facts: the
\* metric definitions it was given; from, to: the range of its events request)
IdlePass ==
    [pc |-> "idle", kind |-> "none", trigger |-> "none", year |-> 0, events |-> <<>>,
     allFacts |-> <<>>, i |-> 0, db0 |-> EmptyDb, t0 |-> 0, fatal |-> "none",
     resp |-> <<>>, log |-> <<>>, facts |-> <<>>, from |-> NoDate, to |-> NoDate]

NoReply == [trigger |-> "none", status |-> "none", code |-> 0, busy |-> FALSE]

NoLast ==
    [trigger |-> "none", kind |-> "none", outcome |-> "none", stage |-> "none", events |-> <<>>,
     allFacts |-> <<>>, db0 |-> EmptyDb, t0 |-> 0, fatal |-> "none", resp |-> <<>>,
     log |-> <<>>, storeFailed |-> FALSE, facts |-> <<>>, from |-> NoDate, to |-> NoDate]

Executing == {s \in Slots : pass[s].pc # "idle"}
FreeSlot(s) == pass[s].pc = "idle" /\ \A r \in Slots : r < s => pass[r].pc # "idle"

\* a test of the flag that never finds it set
alreadyInProgress_never(flag) == FALSE

\* line 10 / line 91: the test of the flag
alreadyInProgress(flag) == flag

\* a turned-away trigger that runs the finally block of the pass it did not start
flagAfterRejection_released(flag) == FALSE

\* lines 10-13 / 91-93: return and throw come before the try, the flag is not written
flagAfterRejection(flag) == flag

\* a release of the flag on the successful path only
flagAfterPass_onSuccessOnly(outcome) == outcome # "success"

\* finally { this.isSyncing = false }: the flag after a pass, whatever its outcome
flagAfterPass(outcome) == FALSE

\* the callback without its try / catch: the rejection of syncData is unhandled
cronAfterPass_uncaught(task, outcome) == IF outcome = "error" THEN "crashed" ELSE task

\* startCronJob's callback: try { await this.syncData() } catch { console.error }
cronAfterPass(task, outcome) == task

\* stopCronJob: if (this.syncTask) { this.syncTask.stop(); this.syncTask = null }
stopCronJobTask(task) == "null"

\* the process has ended: no callback runs any more
Ended == proc \in {"exited", "stopped"}

\* index.ts: what the two POST handlers answer when the call resolves / rejects
postReply(trigger, settled, busy) ==
    IF settled = "resolved"
    THEN [trigger |-> trigger, status |-> "success", code |-> 200, busy |-> busy]
    ELSE [trigger |-> trigger, status |-> "error", code |-> 500, busy |-> busy]

\* new Date() at hour t of the clock: the process starts on 15 February 2024, 00:00 UTC,
\* and the local date is in the same month in every zone of TimeZones
Today(t) == Date(2024, 2, 15, t * 3600)

\* new Date(year, monthIndex, 1): monthIndex counts from 0 and may be -1 or 12
firstOfMonth(year, monthIndex) ==
    LET k == year * 12 + monthIndex IN Date(k \div 12, (k % 12) + 1, 1, 0)

\* the number of days of a calendar month
DaysInMonth(y, m) ==
    IF m = 2 THEN (IF y % 4 = 0 /\ (y % 100 # 0 \/ y % 400 = 0) THEN 29 ELSE 28)
    ELSE IF m \in {4, 6, 9, 11} THEN 30 ELSE 31

\* the calendar day before the day of x
PrevDay(x) ==
    IF x.d > 1 THEN Date(x.y, x.m, x.d - 1, 0)
    ELSE IF x.m > 1 THEN Date(x.y, x.m - 1, DaysInMonth(x.y, x.m - 1), 0)
    ELSE Date(x.y - 1, 12, 31, 0)

\* x.toISOString().split("T")[0] for x a local midnight (new Date(y, m, 1)): the UTC
\* date of that instant, which east of UTC is the day before
toISODate(x) == IF tz > 0 THEN PrevDay(x) ELSE Date(x.y, x.m, x.d, 0)

\* lines 38-44: previousMonth and nextMonth as from and to
syncWindow(t) ==
    LET today == Today(t)
        previousMonth == firstOfMonth(today.y, today.m - 1 - 1)
        nextMonth == firstOfMonth(today.y, today.m - 1 + 1)
    IN  [from |-> toISODate(previousMonth), to |-> toISODate(nextMonth)]

\* getEvents(year): from `${year}-01-01` to `${year}-12-31`
yearWindow(year) == [from |-> Date(year, 1, 1, 0), to |-> Date(year, 12, 31, 0)]

\* hoursSinceLastSync > 1, or no watermark
needsInitialSync(lastSync, t) == lastSync = NoSync \/ t - lastSync > 1

-----------------------------------------------------------------------------
(* The state machine of the process *)

NoPayload == [facts |-> <<>>, events |-> <<>>, eventFacts |-> <<>>]
NoHist == [op |-> "none", payload |-> NoPayload, k |-> 0, after |-> EmptyDb]
NoResult == [value |-> 0, count |-> 0]
NoRequest ==
    [kind |-> "none", factId |-> 0, from |-> NoDate, to |-> NoDate, year |-> 0,
     eventNames |-> <<>>, datapoints |-> <<>>, result |-> NoResult,
     targets |-> <<>>, status |-> 0, results |-> <<>>]

\* rows of metric definitions as insertFact takes them
FactRecords ==
    << [id |-> 1, name |-> "fact", name_translated |-> "Fact", type |-> "number", unit |-> "p", sort_key |-> 1],
       [id |-> 2, name |-> "fact", name_translated |-> "Fact", type |-> "select", unit |-> Null, sort_key |-> 2] >>

\* a data.db found on disk: two metric definitions written through database.insertFact,
\* two events and one sample
SeedDb ==
    LET es == <<CTEvent(1, "A"), CTEvent(2, "A")>>
        d1 == RunWrites(EmptyDb, "insertFact", FactRecords, 1, 0).db
    IN  WritePhase(d1, es, CTEventFacts(1, << [factId |-> 1, value |-> Num(1)] >>), 0).db

\* new Database("data.db") and CREATE TABLE IF NOT EXISTS: the file is new, or kept
Init ==
    /\ db \in {EmptyDb, SeedDb}
    /\ now = 0
    /\ proc = "auth"
    /\ isAuthenticated = FALSE
    /\ isSyncing = FALSE
    /\ syncTask = "null"
    /\ pass = [s \in Slots |-> IdlePass]
    /\ reply = NoReply
    /\ last = NoLast
    /\ nPasses = 0
    /\ hist = NoHist
    /\ q = NoRequest
    /\ tz \in TimeZones

\* new Date().getFullYear()
getFullYear(t) == 2024

\* lines 15-21 / 95-101: the flag is set and the master data request goes out
Begin(s, kind, trigger, year) ==
    /\ nPasses < MaxPasses
    /\ FreeSlot(s)
    /\ isSyncing' = TRUE
    /\ nPasses' = nPasses + 1
    /\ pass' = [pass EXCEPT ![s] =
                    [IdlePass EXCEPT !.pc = "masterdata", !.kind = kind, !.trigger = trigger,
                                     !.year = year, !.db0 = db, !.t0 = now]]

\* catch / finally of syncData and syncYear, and what the caller does with the outcome
EndPass(s, p, outcome, stage, storeFailed) ==
    /\ isSyncing' = flagAfterPass(outcome)
    /\ pass' = [pass EXCEPT ![s] = IdlePass]
    /\ last' = [trigger |-> p.trigger, kind |-> p.kind, outcome |-> outcome, stage |-> stage,
                events |-> p.events, allFacts |-> p.allFacts, db0 |-> p.db0, t0 |-> p.t0,
                fatal |-> p.fatal, resp |-> p.resp, log |-> p.log, storeFailed |-> storeFailed,
                facts |-> p.facts, from |-> p.from, to |-> p.to]
    /\ CASE p.trigger = "startup" ->
              /\ proc' = IF outcome = "success" THEN "serving" ELSE "exited"
              /\ syncTask' = IF outcome = "success" THEN "scheduled" ELSE syncTask
              /\ reply' = NoReply
         [] p.trigger = "cron" ->
              /\ syncTask' = cronAfterPass(syncTask, outcome)
              /\ reply' = [trigger |-> "cron", status |-> IF outcome = "success" THEN "success" ELSE "logged",
                           code |-> 0, busy |-> FALSE]
              /\ proc' = proc
         [] OTHER ->
              /\ reply' = postReply(p.trigger, IF outcome = "success" THEN "resolved" ELSE "rejected", FALSE)
              /\ UNCHANGED <<proc, syncTask>>

\* index.ts initialize(): authenticate, performInitialSync, startCronJob, Bun.serve
authenticate(ok) ==
    /\ proc = "auth"
    /\ UNCHANGED <<tz, db, now, hist, q>>
    /\ reply' = NoReply
    /\ last' = NoLast
    /\ IF ~ok
       THEN /\ proc' = "exited"
            /\ UNCHANGED <<isAuthenticated, isSyncing, syncTask, pass, nPasses>>
       ELSE /\ isAuthenticated' = TRUE
            /\ IF needsInitialSync(getLastSyncTime(db), now)
               THEN /\ Begin(1, "window", "startup", 0)
                    /\ proc' = "initialSync"
                    /\ UNCHANGED syncTask
               ELSE /\ proc' = "serving"
                    /\ syncTask' = "scheduled"
                    /\ UNCHANGED <<isSyncing, pass, nPasses>>

\* the hourly cron callback
cronTick ==
    /\ proc = "serving"
    /\ syncTask = "scheduled"
    /\ UNCHANGED <<tz, db, now, proc, isAuthenticated, syncTask, hist, q>>
    /\ last' = NoLast
    /\ IF alreadyInProgress(isSyncing)
       THEN /\ reply' = [trigger |-> "cron", status |-> "skipped", code |-> 0, busy |-> Executing # {}]
            /\ isSyncing' = flagAfterRejection(isSyncing)
            /\ UNCHANGED <<pass, nPasses>>
       ELSE /\ \E s \in Slots : Begin(s, "window", "cron", 0)
            /\ reply' = NoReply

\* POST /sync
postSync ==
    /\ proc = "serving"
    /\ UNCHANGED <<tz, db, now, proc, isAuthenticated, syncTask, hist, q>>
    /\ last' = NoLast
    /\ IF alreadyInProgress(isSyncing)
       THEN /\ reply' = postReply("sync", "resolved", Executing # {})
            /\ isSyncing' = flagAfterRejection(isSyncing)
            /\ UNCHANGED <<pass, nPasses>>
       ELSE /\ \E s \in Slots : Begin(s, "window", "sync", 0)
            /\ reply' = NoReply

YearParams == {1999, 2024}

\* POST /sync-year/:year
postSyncYear(year) ==
    /\ proc = "serving"
    /\ UNCHANGED <<tz, db, now, proc, isAuthenticated, syncTask, hist, q>>
    /\ last' = NoLast
    /\ IF year < 2000 \/ year > getFullYear(now) + 1
       THEN /\ reply' = [trigger |-> "syncYear", status |-> "error", code |-> 400, busy |-> Executing # {}]
            /\ UNCHANGED <<isSyncing, pass, nPasses>>
       ELSE IF alreadyInProgress(isSyncing)
       THEN /\ reply' = postReply("syncYear", "rejected", Executing # {})
            /\ isSyncing' = flagAfterRejection(isSyncing)
            /\ UNCHANGED <<pass, nPasses>>
       ELSE /\ \E s \in Slots : Begin(s, "year", "syncYear", year)
            /\ reply' = NoReply

\* getMasterData settles; on success the loop over masterData.facts calls
\* database.upsertFact (which throws at the first definition) and getEvents goes out
masterDataResponse(s, r) ==
    LET p == [pass[s] EXCEPT !.fatal = IF r.ok THEN "none" ELSE "masterdata"]
        m == getMasterData(isAuthenticated, r)
        w == RunWrites(db, "fact", FactRows(m.data), 1, now)
        range == IF p.kind = "year" THEN yearWindow(p.year) ELSE syncWindow(now)
        p1 == [p EXCEPT !.log = Repeat("fact", w.n), !.facts = FactRows(m.data)]
        p2 == [p1 EXCEPT !.from = range.from, !.to = range.to]
    IN  /\ ~Ended
        /\ p.pc = "masterdata"
        /\ UNCHANGED <<tz, now, isAuthenticated, nPasses, hist, q>>
        /\ IF m.threw
           THEN /\ EndPass(s, p, "error", "masterdata", FALSE)
                /\ UNCHANGED db
           ELSE /\ db' = w.db
                /\ IF w.threw
                   THEN EndPass(s, p1, "error", "facts", TRUE)
                   ELSE /\ pass' = [pass EXCEPT ![s] = [p2 EXCEPT !.pc = "events"]]
                        /\ reply' = NoReply
                        /\ last' = NoLast
                        /\ UNCHANGED <<proc, isSyncing, syncTask>>

\* the write loops and the end of the pass, once every sample request has settled
Finish(s, p) ==
    LET w == WritePhase(db, p.events, p.allFacts, now)
        p2 == [p EXCEPT !.log = @ \o w.log]
    IN  /\ db' = w.db
        /\ IF w.threw
           THEN EndPass(s, p2, "error", "write", TRUE)
           ELSE EndPass(s, p2, "success", "done", FALSE)

\* the index of the first event from k on that syncYear's loop awaits (one with an id), 0 if none
NextWithId(events, k) ==
    LET ks == {j \in k..Len(events) : events[j].id # 0} IN
    IF ks = {} THEN 0 ELSE CHOOSE j \in ks : \A i \in ks : j <= i

\* getAllFactsForDateRange, lines 214-222: the start of the first batch from k on
\* (k, k + batchSize, ...) that sends a request; a batch in which no event has an id
\* maps to Promise.resolve([]) only, its Promise.all settles in the same turn and the
\* loop goes on; 0 if no batch is left that sends one
NextBatch(events, k) ==
    LET starts == {j \in k..Len(events) :
                      /\ (j - k) % batchSize = 0
                      /\ \E i \in j..Min2(j + batchSize - 1, Len(events)) : events[i].id # 0}
    IN  IF starts = {} THEN 0 ELSE CHOOSE j \in starts : \A i \in starts : j <= i

\* getEvents settles: the loop runs up to its first await of a request, or to its end
eventsResponse(s, r) ==
    LET g == getEvents(isAuthenticated, r)
        first == IF pass[s].kind = "year" THEN NextWithId(g.events, 1)
                 ELSE NextBatch(g.events, 1)
        p == [pass[s] EXCEPT !.fatal = IF r.ok THEN "none" ELSE "events"]
        p2 == [p EXCEPT !.events = g.events, !.i = first]
    IN  /\ ~Ended
        /\ p.pc = "events"
        /\ UNCHANGED <<tz, now, isAuthenticated, nPasses, hist, q>>
        /\ IF g.threw
           THEN /\ EndPass(s, p, "error", "events", FALSE)
                /\ UNCHANGED db
           ELSE IF first = 0
           THEN Finish(s, p2)
           ELSE /\ pass' = [pass EXCEPT ![s] = [p2 EXCEPT !.pc = "facts"]]
                /\ reply' = NoReply
                /\ last' = NoLast
                /\ UNCHANGED <<db, proc, isSyncing, syncTask>>

\* the events whose sample requests are in flight: a batch of batchSize (window sync),
\* one event (year backfill)
Batch(p) ==
    IF p.pc # "facts" THEN <<>>
    ELSE SubSeq(p.events, p.i, IF p.kind = "year" THEN p.i ELSE Min2(p.i + batchSize - 1, Len(p.events)))

\* the sample requests of one batch (window sync) or of one event (year backfill) settle
factsResponse(s, rs) ==
    LET p == pass[s]
        batch == Batch(p)
        nxt == IF p.kind = "year" THEN NextWithId(p.events, p.i + 1)
               ELSE NextBatch(p.events, p.i + batchSize)
        p2 == [p EXCEPT !.allFacts = @ \o BatchFacts(isAuthenticated, batch, rs, 1),
                        !.resp = @ \o BatchResp(batch, rs),
                        !.i = nxt]
    IN  /\ ~Ended
        /\ p.pc = "facts"
        /\ UNCHANGED <<tz, now, isAuthenticated, nPasses, hist, q>>
        /\ IF BatchThrew(isAuthenticated, batch, rs)
           THEN /\ EndPass(s, [p EXCEPT !.resp = @ \o BatchResp(batch, rs)], "error", "samples", FALSE)
                /\ UNCHANGED db
           ELSE IF p.kind = "year" /\ p.i < Len(p.events)
           THEN /\ pass' = [pass EXCEPT ![s] = [p2 EXCEPT !.pc = "delay", !.i = p.i]]
                /\ reply' = NoReply
                /\ last' = NoLast
                /\ UNCHANGED <<db, proc, isSyncing, syncTask>>
           ELSE IF nxt = 0
           THEN Finish(s, p2)
           ELSE /\ pass' = [pass EXCEPT ![s] = p2]
                /\ reply' = NoReply
                /\ last' = NoLast
                /\ UNCHANGED <<db, proc, isSyncing, syncTask>>

\* getAllFactsForYearWithDelay, lines 186-188: the timer awaited after the answer for
\* every event with an id but the last of the list has fired; the loop goes on to the
\* next event with an id, or ends
delayElapsed(s) ==
    LET p == pass[s]
        nxt == NextWithId(p.events, p.i + 1)
    IN  /\ ~Ended
        /\ p.pc = "delay"
        /\ UNCHANGED <<tz, now, isAuthenticated, nPasses, hist, q>>
        /\ IF nxt = 0
           THEN Finish(s, p)
           ELSE /\ pass' = [pass EXCEPT ![s] = [p EXCEPT !.pc = "facts", !.i = nxt]]
                /\ reply' = NoReply
                /\ last' = NoLast
                /\ UNCHANGED <<db, proc, isSyncing, syncTask>>

\* dataSyncService.stopCronJob(): the task is stopped, no cron callback fires again
stopCronJob ==
    /\ proc = "serving"
    /\ syncTask # "null"
    /\ syncTask' = stopCronJobTask(syncTask)
    /\ reply' = NoReply
    /\ last' = NoLast
    /\ UNCHANGED <<tz, db, now, proc, isAuthenticated, isSyncing, pass, nPasses, hist, q>>

\* index.ts 113-125, SIGINT / SIGTERM: stopCronJob(), database.close(), process.exit(0);
\* a pass that is suspended never resumes, its flag stays as it is
shutdown ==
    /\ ~Ended
    /\ proc' = "stopped"
    /\ syncTask' = IF syncTask # "null" THEN stopCronJobTask(syncTask) ELSE syncTask
    /\ reply' = NoReply
    /\ last' = NoLast
    /\ UNCHANGED <<tz, db, now, isAuthenticated, isSyncing, pass, nPasses, hist, q>>

\* an hour passes (the clock counts hours), also while a pass is suspended
tick ==
    /\ ~Ended
    /\ now < MaxClock
    /\ now' = now + 1
    /\ tz' = tz
    /\ reply' = NoReply
    /\ last' = NoLast
    /\ UNCHANGED <<db, proc, isAuthenticated, isSyncing, syncTask, pass, nPasses, hist, q>>

Next ==
    \/ \E ok \in BOOLEAN : authenticate(ok)
    \/ cronTick
    \/ postSync
    \/ \E year \in YearParams : postSyncYear(year)
    \/ \E s \in Slots, r \in MasterDataResponses : masterDataResponse(s, r)
    \/ \E s \in Slots, r \in EventsResponses : eventsResponse(s, r)
    \/ \E s \in Slots : \E rs \in [1..Len(Batch(pass[s])) -> FactsResponses] : factsResponse(s, rs)
    \/ \E s \in Slots : delayElapsed(s)
    \/ stopCronJob
    \/ shutdown
    \/ tick

Spec == Init /\ [][Next]_vars

-----------------------------------------------------------------------------
(* The store alone: a caller of db.ts hands rows to database.insertFact, insertEvent
   and insertEventFact, one call after the other *)

\* the rows of one application: metric definitions (interface Fact), events
\* (interface Event) and samples (the argument of insertEventFact)
Payload(facts, events, eventFacts) ==
    [facts |-> facts, events |-> events, eventFacts |-> eventFacts]

\* payloads with and without metric definitions; an event row may lack its name, and a
\* sample may name an event or a metric definition that neither the payload nor the
\* store holds
UpsertPayloads ==
    { Payload(f, EventRows(l), EventFactRows(l, CTEventFacts(1, t1) \o CTEventFacts(2, t2))) :
        f \in {<<>>, FactRecords},
        l \in {x \in EventLists : Len(x) = 2},
        t1 \in FactTemplates, t2 \in FactTemplates }

\* the calls of one application in their order: insertFact for every metric definition,
\* then insertEvent for every event, then insertEventFact for every sample
Calls(P) ==
    [k \in 1..Len(P.facts) |-> [kind |-> "insertFact", row |-> P.facts[k]]]
    \o [k \in 1..Len(P.events) |-> [kind |-> "event", row |-> P.events[k]]]
    \o [k \in 1..Len(P.eventFacts) |-> [kind |-> "eventFact", row |-> P.eventFacts[k]]]

\* the calls from the k-th on, all at time t: a call that throws ends the application,
\* the calls after it are not made and the rows written before it stay written
RECURSIVE RunCalls(_, _, _, _)
RunCalls(d, calls, k, t) ==
    IF k > Len(calls) THEN [db |-> d, threw |-> FALSE, n |-> Len(calls)]
    ELSE IF Throws(d, calls[k].kind, calls[k].row) THEN [db |-> d, threw |-> TRUE, n |-> k - 1]
    ELSE RunCalls(Exec(d, calls[k].kind, calls[k].row, t), calls, k + 1, t)

\* a whole application within one hour: the store it leaves
ApplyPayload(d, P, t) == RunCalls(d, Calls(P), 1, t).db

InitUpsert ==
    /\ db \in {EmptyDb, SeedDb}
    /\ now = 0
    /\ proc = "auth"
    /\ isAuthenticated = FALSE
    /\ isSyncing = FALSE
    /\ syncTask = "null"
    /\ pass = [s \in Slots |-> IdlePass]
    /\ reply = NoReply
    /\ last = NoLast
    /\ nPasses = 0
    /\ hist = NoHist
    /\ q = NoRequest
    /\ tz = 0

\* call k of the first or the second application of P: the statement runs at the
\* current time; when it throws, or when it was the last call, the application is over
\* ("once" after the first application, "twice" after the second)
Call(P, k, second) ==
    LET c == Calls(P)[k]
        threw == Throws(db, c.kind, c.row)
        over == threw \/ k = Len(Calls(P))
    IN  /\ db' = IF threw THEN db ELSE Exec(db, c.kind, c.row, now)
        /\ hist' = [op |-> IF over THEN (IF second THEN "twice" ELSE "once")
                           ELSE (IF second THEN "second" ELSE "first"),
                    payload |-> P,
                    k |-> IF over THEN 0 ELSE k,
                    after |-> IF second THEN hist.after ELSE IF over THEN db' ELSE EmptyDb]

\* a caller starts to apply a payload: its first call
applyPayload(P) ==
    /\ nPasses < MaxPasses
    /\ hist.op \in {"none", "once", "twice"}
    /\ Call(P, 1, FALSE)
    /\ nPasses' = nPasses + 1
    /\ UNCHANGED <<tz, now, proc, isAuthenticated, isSyncing, syncTask, pass, reply, last, q>>

\* the next call of the application under way
nextCall ==
    /\ hist.op \in {"first", "second"}
    /\ Call(hist.payload, hist.k + 1, hist.op = "second")
    /\ UNCHANGED <<tz, now, proc, isAuthenticated, isSyncing, syncTask, pass, reply, last, nPasses, q>>

\* the payload applied latest is applied a second time: its first call
applyAgain ==
    /\ hist.op = "once"
    /\ Call(hist.payload, 1, TRUE)
    /\ UNCHANGED <<tz, now, proc, isAuthenticated, isSyncing, syncTask, pass, reply, last, nPasses, q>>

\* an hour passes, between two applications or between two calls of one
tickStore ==
    /\ now < MaxClock
    /\ now' = now + 1
    /\ tz' = tz
    /\ UNCHANGED <<db, proc, isAuthenticated, isSyncing, syncTask, pass, reply, last, nPasses, hist, q>>

NextUpsert ==
    \/ \E P \in UpsertPayloads : applyPayload(P)
    \/ nextCall
    \/ applyAgain
    \/ tickStore

SpecUpsert == InitUpsert /\ [][NextUpsert]_vars

-----------------------------------------------------------------------------
(* grafana.ts: the raw and monthly branches of query, and the store queries alone *)

\* new Date(x).getTime(): the instant of the timestamp string, counted in seconds
\* on the scale of datetime() where the code counts milliseconds
getTime(x) == ((((x.y - 1970) * 12 + (x.m - 1)) * 31 + (x.d - 1)) * 86400) + x.s

\* new Date(year, month - 1, 1).getTime() of a "YYYY-MM" group
monthTimestamp(m) == getTime(Date(m[1], m[2], 1, 0))

\* ORDER BY e.start_date: every order of the rows that ascends in start_date
\* (the order of rows with equal start_date is not determined by the statement)
OrderedBy(rows) ==
    { o \in [1..Cardinality(rows) -> rows] :
        /\ \A a, b \in 1..Cardinality(rows) : a # b => o[a] # o[b]
        /\ \A a, b \in 1..Cardinality(rows) : a < b => datetime(o[a].start_date) <= datetime(o[b].start_date) }

\* Array.prototype.sort((a, b) => a[1] - b[1]): stable, ascending in the timestamp
RECURSIVE sortByTimestamp(_)
sortByTimestamp(dps) ==
    IF Len(dps) <= 1 THEN dps
    ELSE LET init == sortByTimestamp(SubSeq(dps, 1, Len(dps) - 1))
             x == dps[Len(dps)]
             k == Cardinality({i \in 1..Len(init) : init[i][2] <= x[2]})
         IN  SubSeq(init, 1, k) \o <<x>> \o SubSeq(init, k + 1, Len(init))

NotNullValue(ef) == ef.value # SqlNull

\* the raw branch: filter, map to [value, timestamp], sort
rawDatapoints(eventFacts) ==
    LET kept == SelectSeq(eventFacts, NotNullValue) IN
    sortByTimestamp([k \in 1..Len(kept) |-> <<kept[k].value.n, getTime(kept[k].start_date)>>])

\* the rows the raw branch asks the store for
rawRows(d, factId, from, to, eventNames) ==
    IF Len(eventNames) > 0
    THEN getEventFactsByTimeRangeFiltered(d, factId, from, to, eventNames)
    ELSE getEventFactsByTimeRange(d, factId, from, to)

\* the monthly branch: one [value, first of the month] per row of the aggregate
monthlyDatapoints(monthlyData) ==
    [k \in 1..Len(monthlyData) |-> <<monthlyData[k].value, monthTimestamp(monthlyData[k].month)>>]

\* new Date(from).getFullYear(): the year of the instant (the process runs in UTC)
getFullYearOf(x) == x.y

\* new Date(year, 0, 1).getTime()
yearTimestamp(year) == getTime(Date(year, 1, 1, 0))

\* a yearly branch that pushes a point for every year of the range
yearHasData_always(yearlyData) == TRUE

\* if (yearlyData.count > 0)
yearHasData(yearlyData) == yearlyData.count > 0

\* for (let year = startYear; year <= endYear; year++): the yearly_sum loop from year on
RECURSIVE yearlySumDatapoints(_, _, _, _, _)
yearlySumDatapoints(d, factId, year, endYear, eventNames) ==
    IF year > endYear THEN <<>>
    ELSE LET yearlyData == getYearlySum(d, factId, year, eventNames) IN
         (IF yearHasData(yearlyData) THEN << <<yearlyData.value, yearTimestamp(year)>> >> ELSE <<>>)
         \o yearlySumDatapoints(d, factId, year + 1, endYear, eventNames)

\* the yearly_mean loop from year on
RECURSIVE yearlyMeanDatapoints(_, _, _, _, _)
yearlyMeanDatapoints(d, factId, year, endYear, eventNames) ==
    IF year > endYear THEN <<>>
    ELSE LET yearlyData == getYearlyMean(d, factId, year, eventNames) IN
         (IF yearHasData(yearlyData) THEN << <<yearlyData.value, yearTimestamp(year)>> >> ELSE <<>>)
         \o yearlyMeanDatapoints(d, factId, year + 1, endYear, eventNames)

\* stores the model starts the queries from: two events with any of the start dates,
\* each with or without a sample of metric 1 (numeric or text, cached label A or B),
\* a sample of metric 2 on event 1, and a third event in June 2024 with a sample of metric 1
QueryDates == {Date(2024, 1, 15, 36000), Date(2024, 12, 31, 0), Date(2024, 12, 31, 36000), Date(2025, 1, 1, 0)}
QueryValues == {Num(0), Num(1), Num(2), Str("x")}
QueryLabels == {"A", "B"}
NoSample == [value |-> Undefined, label |-> Null]
QuerySamples == {NoSample} \cup {[value |-> v, label |-> l] : v \in QueryValues, l \in QueryLabels}

SampleRows(eventId, sm) ==
    IF sm = NoSample THEN <<>>
    ELSE << [event_id |-> eventId, fact_id |-> 1, value |-> sm.value,
             modified_date |-> Null, event_name |-> sm.label] >>

QueryPayload(d1, s1, d2, s2) ==
    LET es == << [CTEvent(1, "A") EXCEPT !.startDate = d1], [CTEvent(2, "B") EXCEPT !.startDate = d2],
                 [CTEvent(3, "C") EXCEPT !.startDate = Date(2024, 6, 15, 36000)] >>
    IN  Payload(FactRecords, EventRows(es),
                SampleRows(1, s1) \o SampleRows(2, s2) \o
                        << [event_id |-> 1, fact_id |-> 2, value |-> Num(2),
                            modified_date |-> Null, event_name |-> "A"],
                           [event_id |-> 3, fact_id |-> 1, value |-> Num(1),
                            modified_date |-> Null, event_name |-> "A"] >>)

QueryDb(d1, s1, d2, s2) == ApplyPayload(EmptyDb, QueryPayload(d1, s1, d2, s2), 0)

QueryPayloads == {QueryPayload(d1, s1, d2, s2) : d1, d2 \in QueryDates, s1, s2 \in QuerySamples}
QueryDbs == {QueryDb(d1, s1, d2, s2) : d1, d2 \in QueryDates, s1, s2 \in QuerySamples}

\* range.from / range.to after new Date(...).toISOString(), and the years asked for
QueryRanges ==
    { <<Date(2024, 1, 1, 0), Date(2024, 12, 31, 86399)>>,
      <<Date(2024, 12, 1, 0), Date(2025, 1, 31, 86399)>> }
QueryYears == {2024, 2025}
\* payload.event_names: absent or [] is <<>>
QueryFilters == {<<>>, <<"A">>, <<"B">>, <<"A", "B">>}

InitQuery ==
    /\ \E P \in QueryPayloads :
        /\ db = ApplyPayload(EmptyDb, P, 0)
        /\ hist = [op |-> "once", payload |-> P, k |-> 0, after |-> ApplyPayload(EmptyDb, P, 0)]
    /\ now = 0
    /\ proc = "serving"
    /\ isAuthenticated = TRUE
    /\ isSyncing = FALSE
    /\ syncTask = "scheduled"
    /\ pass = [s \in Slots |-> IdlePass]
    /\ reply = NoReply
    /\ last = NoLast
    /\ nPasses = 0
    /\ q = NoRequest
    /\ tz = 0

\* POST /query with one target fact_<id>_raw
queryRaw(factId, range, eventNames) ==
    /\ \E rows \in OrderedBy(rawRows(db, factId, range[1], range[2], eventNames)) :
        q' = [NoRequest EXCEPT !.kind = "raw", !.factId = factId, !.from = range[1], !.to = range[2],
                               !.eventNames = eventNames, !.datapoints = rawDatapoints(rows)]
    /\ UNCHANGED <<tz, db, now, proc, isAuthenticated, isSyncing, syncTask, pass, reply, last, nPasses, hist>>

\* POST /query with one target fact_<id>_monthly
queryMonthly(factId, range, eventNames) ==
    /\ q' = [NoRequest EXCEPT !.kind = "monthly", !.factId = factId, !.from = range[1], !.to = range[2],
                              !.eventNames = eventNames,
                              !.datapoints = monthlyDatapoints(
                                  getMonthlyAggregateByFact(db, factId, range[1], range[2], eventNames))]
    /\ UNCHANGED <<tz, db, now, proc, isAuthenticated, isSyncing, syncTask, pass, reply, last, nPasses, hist>>

\* POST /query with one target fact_<id>_yearly_sum
queryYearlySum(factId, range, eventNames) ==
    /\ q' = [NoRequest EXCEPT !.kind = "yearly_sum", !.factId = factId, !.from = range[1], !.to = range[2],
                              !.eventNames = eventNames,
                              !.datapoints = yearlySumDatapoints(db, factId, getFullYearOf(range[1]),
                                                                 getFullYearOf(range[2]), eventNames)]
    /\ UNCHANGED <<tz, db, now, proc, isAuthenticated, isSyncing, syncTask, pass, reply, last, nPasses, hist>>

\* POST /query with one target fact_<id>_yearly_mean
queryYearlyMean(factId, range, eventNames) ==
    /\ q' = [NoRequest EXCEPT !.kind = "yearly_mean", !.factId = factId, !.from = range[1], !.to = range[2],
                              !.eventNames = eventNames,
                              !.datapoints = yearlyMeanDatapoints(db, factId, getFullYearOf(range[1]),
                                                                  getFullYearOf(range[2]), eventNames)]
    /\ UNCHANGED <<tz, db, now, proc, isAuthenticated, isSyncing, syncTask, pass, reply, last, nPasses, hist>>

\* a call of database.getYearlySum
callYearlySum(factId, year, eventNames) ==
    /\ q' = [NoRequest EXCEPT !.kind = "getYearlySum", !.factId = factId, !.year = year,
                              !.eventNames = eventNames,
                              !.result = getYearlySum(db, factId, year, eventNames)]
    /\ UNCHANGED <<tz, db, now, proc, isAuthenticated, isSyncing, syncTask, pass, reply, last, nPasses, hist>>

NextQuery ==
    \/ \E range \in QueryRanges, F \in QueryFilters : queryRaw(1, range, F)
    \/ \E range \in QueryRanges, F \in QueryFilters : queryMonthly(1, range, F)
    \/ \E range \in QueryRanges, F \in QueryFilters : queryYearlySum(1, range, F)
    \/ \E range \in QueryRanges, F \in QueryFilters : queryYearlyMean(1, range, F)
    \/ \E year \in QueryYears, F \in QueryFilters : callYearlySum(1, year, F)

SpecQuery == InitQuery /\ [][NextQuery]_vars

-----------------------------------------------------------------------------
(* grafana.ts: the query handler over a request with several targets *)

\* a target string `${prefix}_${id}_${kind}`, by its three parts
Key(prefix, id, kind) == [prefix |-> prefix, id |-> id, kind |-> kind]

Aggregations == {"raw", "monthly", "yearly_sum", "yearly_mean"}
DigitStrings == {"1", "9"}

\* targetValue.match(/^fact_(\d+)_(raw|monthly|yearly_sum|yearly_mean)$/)
match(key) == key.prefix = "fact" /\ key.id \in DigitStrings /\ key.kind \in Aggregations

\* parseInt(match[1])
parseInt(str) == CASE str = "1" -> 1 [] str = "9" -> 9

\* a handler in which a target that does not match is an error
onNoMatch_throws(key) == "throw"

\* if (!match) { continue; }
onNoMatch(key) == "continue"

\* new Date(range.from).toISOString() throws RangeError on a string that is no date
toISOStringThrows(x) == x = NoDate

\* stmts.getNumericFacts: the facts of type 'number'
getNumericFacts(d) == {f \in d.facts : f.type = "number"}

\* `Fact ${factId}`
DefaultName(factId) == [text |-> "Fact", id |-> factId]
StoredName(text) == [text |-> text, id |-> 0]

\* targetName and unit of the raw branch, from the first row
rawLabel(factId, eventFacts, datapoints, eventNames) ==
    IF Len(datapoints) > 0
    THEN [name |-> IF eventFacts[1].fact_name = "" THEN DefaultName(factId)
                   ELSE StoredName(eventFacts[1].fact_name),
          suffix |-> "",
          unit |-> OrNull(eventFacts[1].unit),
          eventNames |-> eventNames]
    ELSE [name |-> DefaultName(factId), suffix |-> "", unit |-> Null, eventNames |-> <<>>]

\* targetName and unit of the three aggregating branches, from getNumericFacts
aggregateLabel(d, factId, suffix, eventNames) ==
    LET found == {f \in getNumericFacts(d) : f.id = factId} IN
    IF found # {}
    THEN LET fact == CHOOSE f \in found : TRUE IN
         [name |-> StoredName(fact.name_translated), suffix |-> suffix,
          unit |-> OrNull(fact.unit), eventNames |-> eventNames]
    ELSE [name |-> DefaultName(factId), suffix |-> "", unit |-> Null, eventNames |-> <<>>]

\* what one matching target can come to: its label and its datapoints (index: the
\* position of the target in the request)
Entry(index, label, datapoints) ==
    [index |-> index, target |-> label, datapoints |-> datapoints, unit |-> label.unit]

targetEntries(d, t, index, from, to) ==
    LET factId == parseInt(t.target.id)
        aggregation == t.target.kind
        eventNames == t.event_names
    IN  CASE aggregation = "raw" ->
               { Entry(index, rawLabel(factId, rows, rawDatapoints(rows), eventNames), rawDatapoints(rows)) :
                    rows \in OrderedBy(rawRows(d, factId, from, to, eventNames)) }
          [] aggregation = "monthly" ->
               { Entry(index, aggregateLabel(d, factId, "Monthly Sum", eventNames),
                       monthlyDatapoints(getMonthlyAggregateByFact(d, factId, from, to, eventNames))) }
          [] aggregation = "yearly_sum" ->
               { Entry(index, aggregateLabel(d, factId, "Yearly Sum", eventNames),
                       yearlySumDatapoints(d, factId, getFullYearOf(from), getFullYearOf(to), eventNames)) }
          [] aggregation = "yearly_mean" ->
               { Entry(index, aggregateLabel(d, factId, "Yearly Mean", eventNames),
                       yearlyMeanDatapoints(d, factId, getFullYearOf(from), getFullYearOf(to), eventNames)) }

\* a handler that pushes the result of every matching target
pushed_always(datapoints) == TRUE

\* if (datapoints.length > 0) results.push(result)
pushed(datapoints) == Len(datapoints) > 0

\* the for loop over the targets from target k on: whether it throws, and the results
\* it can collect
RECURSIVE loopThrows(_, _, _, _)
loopThrows(targets, k, from, to) ==
    IF k > Len(targets) THEN FALSE
    ELSE IF ~match(targets[k].target)
         THEN onNoMatch(targets[k].target) = "throw" \/ loopThrows(targets, k + 1, from, to)
         ELSE toISOStringThrows(from) \/ toISOStringThrows(to) \/ loopThrows(targets, k + 1, from, to)

RECURSIVE loopResults(_, _, _, _, _)
loopResults(d, targets, k, from, to) ==
    IF k > Len(targets) THEN {<<>>}
    ELSE IF ~match(targets[k].target) THEN loopResults(d, targets, k + 1, from, to)
    ELSE { (IF pushed(e.datapoints) THEN <<e>> ELSE <<>>) \o rest :
                e \in targetEntries(d, targets[k], k, from, to),
                rest \in loopResults(d, targets, k + 1, from, to) }

\* the requests of the model: one or two targets, a range that may be no date
RequestKeys ==
    {Key("fact", "1", a) : a \in Aggregations} \cup
    {Key("fact", "9", "raw"), Key("metric", "1", "raw"), Key("fact", "x", "monthly"),
     Key("fact", "1", "weekly")}
RequestTargets == {[target |-> key, event_names |-> F] : key \in RequestKeys, F \in {<<>>, <<"B">>}}
MaxTargets == 2
Requests == UNION {[1..n -> RequestTargets] : n \in 1..MaxTargets}
RequestRanges == QueryRanges \cup {<<NoDate, Date(2024, 12, 31, 86399)>>}

RequestSamples == {NoSample, [value |-> Num(1), label |-> "A"], [value |-> Num(2), label |-> "B"],
                   [value |-> Str("x"), label |-> "A"]}
RequestDbs ==
    {QueryDb(d1, s1, d2, s2) : d1, d2 \in {Date(2024, 12, 31, 0), Date(2025, 1, 1, 0)},
                               s1, s2 \in RequestSamples}

InitRequest ==
    /\ db \in RequestDbs
    /\ now = 0
    /\ proc = "serving"
    /\ isAuthenticated = TRUE
    /\ isSyncing = FALSE
    /\ syncTask = "scheduled"
    /\ pass = [s \in Slots |-> IdlePass]
    /\ reply = NoReply
    /\ last = NoLast
    /\ nPasses = 0
    /\ hist = NoHist
    /\ q = NoRequest
    /\ tz = 0

\* POST /query: the whole handler, with its try / catch
query(targets, range) ==
    /\ q.kind = "none"
    /\ IF loopThrows(targets, 1, range[1], range[2])
       THEN q' = [NoRequest EXCEPT !.kind = "query", !.targets = targets, !.from = range[1],
                                   !.to = range[2], !.status = 500]
       ELSE \E results \in loopResults(db, targets, 1, range[1], range[2]) :
                q' = [NoRequest EXCEPT !.kind = "query", !.targets = targets, !.from = range[1],
                                       !.to = range[2], !.status = 200, !.results = results]
    /\ UNCHANGED <<tz, db, now, proc, isAuthenticated, isSyncing, syncTask, pass, reply, last, nPasses, hist>>

\* the client reads the response
queryDone ==
    /\ q.kind = "query"
    /\ q' = NoRequest
    /\ UNCHANGED <<tz, db, now, proc, isAuthenticated, isSyncing, syncTask, pass, reply, last, nPasses, hist>>

NextRequest ==
    \/ \E targets \in Requests, range \in RequestRanges : query(targets, range)
    \/ queryDone

SpecRequest == InitRequest /\ [][NextRequest]_vars

-----------------------------------------------------------------------------
(* Properties of the sync service, checked under Spec *)

\* C1: at most one sync pass executes at any time, whichever triggers are issued and
\* however their asynchronous steps interleave; a trigger issued while a pass
\* executes starts no second pass.
C1_SingleFlight == Cardinality(Executing) <= 1

\* a trigger has just been issued while a pass was executing, and one pass executes
C1_Witness == reply.busy /\ reply.status # "none" /\ Cardinality(Executing) = 1 /\ isSyncing

\* C2 (as claimed): an on-demand trigger (POST /sync, POST /sync-year) issued while a
\* pass executes is answered with a rejection, never with success.
C2_OnDemandRejected ==
    (reply.busy /\ reply.trigger \in {"sync", "syncYear"}) => reply.status = "error"

\* the rows of the three tables
Tables(d) == [facts |-> d.facts, events |-> d.events, event_facts |-> d.event_facts]

\* the rows of the three tables without the columns the store fills in by itself:
\* created_at (DEFAULT CURRENT_TIMESTAMP) and the row id of event_facts (AUTOINCREMENT)
PayloadColumns(d) ==
    [facts |-> {[id |-> r.id, name |-> r.name, name_translated |-> r.name_translated,
                 type |-> r.type, unit |-> r.unit, sort_key |-> r.sort_key] : r \in d.facts},
     events |-> {[id |-> r.id, name |-> r.name, start_date |-> r.start_date,
                  end_date |-> r.end_date, calendar_id |-> r.calendar_id] : r \in d.events},
     event_facts |-> {[event_id |-> r.event_id, fact_id |-> r.fact_id, event_name |-> r.event_name,
                       value |-> r.value, value_text |-> r.value_text,
                       modified_date |-> r.modified_date] : r \in d.event_facts}]

RowCounts(d) ==
    [facts |-> Cardinality(d.facts), events |-> Cardinality(d.events),
     event_facts |-> Cardinality(d.event_facts)]

\* C3 (as stated): applying a payload twice leaves the store identical, in row counts
\* and in the value of every column, to applying it once.
C3_UpsertIdempotent == hist.op = "twice" => Tables(db) = Tables(hist.after)

\* C3 (amended): applying a payload twice leaves the same row counts and the same value
\* in every column the payload supplies as applying it once; the row id of a replaced
\* sample and the created_at of every replaced row are given anew by the second application.
C3_UpsertIdempotentPayloadColumns ==
    hist.op = "twice" =>
        /\ RowCounts(db) = RowCounts(hist.after)
        /\ PayloadColumns(db) = PayloadColumns(hist.after)

\* a payload with samples has been applied twice, an hour apart, and the second
\* application replaced rows: their row ids and created_at differ from the first
C3_Witness ==
    /\ hist.op = "twice"
    /\ hist.payload.eventFacts # <<>>
    /\ hist.payload.events # <<>>
    /\ \E r \in db.event_facts : r \notin hist.after.event_facts
    /\ \E r \in db.events : r \notin hist.after.events

\* C4: the store holds at most one sample row for each (event_id, fact_id) pair.
C4_Uniqueness ==
    \A r1, r2 \in db.event_facts :
        (r1.event_id = r2.event_id /\ r1.fact_id = r2.fact_id) => r1 = r2

\* more sample rows have been inserted than the table holds: a pair was written again
C4_Witness == db.event_facts # {} /\ db.seq > Cardinality(db.event_facts) /\ nPasses > 0

\* the ids of the events of the pass that ended whose sample request failed
FailedIds(l) == {l.resp[k].eventId : k \in {j \in 1..Len(l.resp) : l.resp[j].eventId # 0 /\ ~l.resp[j].ok}}

\* the samples the upstream system delivered to the pass that ended
Delivered(l) ==
    UNION { {[eventId |-> l.resp[k].eventId, factId |-> l.resp[k].tpl[j].factId,
              value |-> l.resp[k].tpl[j].value, modifiedDate |-> Null] : j \in 1..Len(l.resp[k].tpl)}
            : k \in {j \in 1..Len(l.resp) : l.resp[j].eventId # 0 /\ l.resp[j].ok} }

\* the store holds the sample as delivered
Persisted(d, f) ==
    \E r \in d.event_facts :
        /\ r.event_id = f.eventId /\ r.fact_id = f.factId
        /\ IF f.value.t = "number" THEN r.value = f.value /\ r.value_text = Null
           ELSE r.value = SqlNull /\ r.value_text = String(f.value)

\* C5 (as claimed): when the sample request of an occurrence fails during a pass whose
\* events all carry a name, that occurrence contributes no sample, the pass goes on,
\* and it ends without error with every occurrence and every sample delivered for the
\* other occurrences in the store.
C5_PartialFailureIsolation ==
    (/\ last.outcome # "none"
     /\ FailedIds(last) # {}
     /\ \A k \in 1..Len(last.events) : last.events[k].name # Null) =>
        /\ \A k \in 1..Len(last.allFacts) : last.allFacts[k].eventId \notin FailedIds(last)
        /\ Delivered(last) = {last.allFacts[k] : k \in 1..Len(last.allFacts)}
        /\ last.outcome = "success"
        /\ \A k \in 1..Len(last.events) :
              last.events[k].id # 0 =>
                  \E r \in db.events : r.id = last.events[k].id /\ r.name = last.events[k].name
        /\ \A f \in Delivered(last) : Persisted(db, f)

\* the error of the pass that ended was reported to whatever triggered it
Reported(l) ==
    CASE l.trigger \in {"sync", "syncYear"} ->
            reply = [trigger |-> l.trigger, status |-> "error", code |-> 500, busy |-> FALSE]
      [] l.trigger = "cron" -> reply.trigger = "cron" /\ reply.status = "logged"
      [] OTHER -> proc = "exited"

\* C6: when the master data request or the events request fails, the pass ends with
\* an error, has written no events row and no event_facts row, and the error reaches
\* the trigger (status error to POST callers, a log line for the scheduler, the end of
\* the process at startup).
C6_FatalFetchFailure ==
    last.fatal # "none" =>
        /\ last.outcome = "error"
        /\ db.events = last.db0.events
        /\ db.event_facts = last.db0.event_facts
        /\ \A k \in 1..Len(last.log) : last.log[k] = "fact"
        /\ Reported(last)

\* the events request of a POST /sync pass failed on a store that holds events and a
\* sample, and the caller was answered with the error
C6_Witness ==
    /\ last.fatal = "events" /\ last.trigger = "sync"
    /\ last.db0.events # {} /\ last.db0.event_facts # {}
    /\ reply.status = "error" /\ reply.code = 500

\* C7 (as claimed): when a store write fails, the pass ends with an error and the
\* watermark is what it was before the pass.
C7_WatermarkNotAdvanced ==
    last.storeFailed =>
        /\ last.outcome = "error"
        /\ getLastSyncTime(db) = getLastSyncTime(last.db0)

\* the step in which a pass begun by the cron callback ends in failure
CronPassFails == last' # last /\ last'.trigger = "cron" /\ last'.outcome = "error"

\* C8: the failure of a scheduled pass leaves the cron task as it was and the process
\* serving; while the task is scheduled the next tick fires and (while the model's
\* bound on the number of passes allows one more) starts a new window sync.
C8_SchedulerSurvives ==
    /\ [][CronPassFails => (syncTask' = syncTask /\ proc = "serving" /\ proc' = "serving")]_vars
    /\ []((/\ last.trigger = "cron" /\ last.outcome = "error"
           /\ syncTask = "scheduled" /\ nPasses < MaxPasses) =>
              ENABLED (cronTick /\ \E s \in Slots : pass'[s].pc = "masterdata" /\ pass'[s].kind = "window"))

\* a scheduled pass has just failed and the bound leaves room for the next one
C8_Witness ==
    /\ last.trigger = "cron" /\ last.outcome = "error" /\ last.fatal # "none"
    /\ syncTask = "scheduled"
    /\ nPasses < MaxPasses

\* the place of a write in the order of the three phases
Phase(kind) == CASE kind = "fact" -> 1 [] kind = "event" -> 2 [] kind = "eventFact" -> 3

InPhaseOrder(log) == \A a, b \in 1..Len(log) : a < b => Phase(log[a]) <= Phase(log[b])

\* the writes of the pass begin with the upsert of every metric definition it was given
RefreshedFirst(p) ==
    /\ Len(p.log) >= Len(p.facts)
    /\ \A k \in 1..Len(p.facts) : p.log[k] = "fact"

\* C15: in every sync pass, window sync or year backfill, ended or still under way, the
\* upserts of metric definitions all come before any upsert of an event and these all
\* before any upsert of a sample; a pass that ends in success has written every
\* definition, every event with an id and every sample it was given, in that order.
C15_WriteSequencing ==
    /\ \A s \in Slots : InPhaseOrder(pass[s].log)
    /\ InPhaseOrder(last.log)
    /\ last.outcome = "success" =>
            last.log = Repeat("fact", Len(last.facts))
                       \o Repeat("event", Len(SelectSeq(last.events, HasId)))
                       \o Repeat("eventFact", Len(last.allFacts))

\* a pass has ended in success after it wrote events and then samples
C15_Witness ==
    /\ last.outcome = "success"
    /\ \E a, b \in 1..Len(last.log) : a < b /\ last.log[a] = "event" /\ last.log[b] = "eventFact"

\* a start timestamp is within the range an events request names (its last day counts whole)
InRange(from, to, x) == getTime(from) <= getTime(x) /\ getTime(x) <= getTime(to) + 86399

\* the first and the last second of the calendar month delta months from the month of hour t
MonthStart(t, delta) == firstOfMonth(Today(t).y, Today(t).m - 1 + delta)
MonthEnd(t, delta) == [MonthStart(t, delta) EXCEPT !.d = 31, !.s = 86399]

\* the window passes whose events request has gone out: running ones and the one ended latest
Requested ==
    {p \in {pass[s] : s \in Slots} : p.kind = "window" /\ p.pc \in {"events", "facts"}} \cup
    {[from |-> last.from, to |-> last.to, t0 |-> last.t0, log |-> last.log, facts |-> last.facts] :
        x \in {y \in {last} : y.kind = "window" /\ y.stage \in {"events", "samples", "write", "done"}}}

\* C16 (as claimed): every window sync refreshes the metric definitions it is given
\* before anything else, and its events request covers the starts anywhere in the
\* previous, the current and the next calendar month.
C16_WindowScope ==
    /\ (last.kind = "window" /\ last.fatal # "masterdata") => RefreshedFirst(last)
    /\ \A p \in Requested :
        /\ \A delta \in {-1, 0, 1} :
            InRange(p.from, p.to, MonthStart(p.t0, delta)) /\ InRange(p.from, p.to, MonthEnd(p.t0, delta))
        /\ RefreshedFirst(p)

\* the sync watermark of a store: the latest created_at of its events, -1 if it has none
Watermark(d) == IF d.events = {} THEN -1 ELSE Max({e.created_at : e \in d.events})

\* the step in which the process, authenticated, leaves its startup decision
StartupDecision == proc = "auth" /\ proc' # "auth" /\ isAuthenticated'

\* C17 (as claimed): on process start a window sync is begun if and only if the store has no
\* watermark or the watermark is more than 1 hour old; with a watermark at most 1 hour
\* old the process goes on to serve with no pass begun, no request sent and no write made.
C17_StartupPolicy ==
    [][StartupDecision =>
        /\ (\E s \in Slots : pass'[s].pc # "idle") <=> (Watermark(db) = -1 \/ now - Watermark(db) > 1)
        /\ \A s \in Slots : pass'[s].pc # "idle" =>
                pass'[s].kind = "window" /\ pass'[s].trigger = "startup" /\ pass'[s].pc = "masterdata"
        /\ (Watermark(db) # -1 /\ now - Watermark(db) <= 1) =>
                /\ proc' = "serving"
                /\ db' = db /\ pass' = pass /\ nPasses' = nPasses /\ isSyncing' = isSyncing]_vars

\* C18: after every sync pass that ends in success the watermark getLastSyncTime
\* reports is the time of that pass, not earlier than its start, and a pass that ends
\* in failure leaves the watermark as it was.
C18_WatermarkIsCompletionTime ==
    /\ last.outcome = "success" =>
            getLastSyncTime(db) = now /\ getLastSyncTime(db) >= last.t0
    /\ last.outcome = "error" => getLastSyncTime(db) = getLastSyncTime(last.db0)

FactIds(d) == {r.id : r \in d.facts}
EventIds(d) == {r.id : r \in d.events}
SamplePairs(d) == {<<r.event_id, r.fact_id>> : r \in d.event_facts}

\* C19: in every step of the process, whatever pass it belongs to and however the pass
\* ends, the stored metric-definition ids, the stored event ids and the stored
\* (event id, metric id) pairs of samples only grow.
C19_NothingDeleted ==
    [][/\ FactIds(db) \subseteq FactIds(db')
       /\ EventIds(db) \subseteq EventIds(db')
       /\ SamplePairs(db) \subseteq SamplePairs(db')]_vars

\* a pass has ended in success whose events and samples lack an event and a sample the
\* store held before and still holds
C19_Witness ==
    /\ last.outcome = "success" /\ last.events # <<>> /\ last.allFacts # <<>>
    /\ \E e \in db.events : \A k \in 1..Len(last.events) : last.events[k].id # e.id
    /\ \E r \in db.event_facts :
            \A k \in 1..Len(last.allFacts) :
                <<last.allFacts[k].eventId, last.allFacts[k].factId>> # <<r.event_id, r.fact_id>>

\* the samples the pass ended latest was given / has written (its log counts the writes)
GivenSamples(l) == EventFactRows(l.events, l.allFacts)
WrittenSamples(l) ==
    SubSeq(GivenSamples(l), 1, Cardinality({k \in 1..Len(l.log) : l.log[k] = "eventFact"}))

\* the value of the latest row of the sequence for the pair
LatestFor(rows, pair) ==
    rows[Max({k \in 1..Len(rows) : <<rows[k].event_id, rows[k].fact_id>> = pair})].value

\* the store holds exactly one row for the pair, and it holds the value v: a number in
\* value, anything else as text in value_text
StoredAs(d, pair, v) ==
    /\ Cardinality({r \in d.event_facts : <<r.event_id, r.fact_id>> = pair}) = 1
    /\ \A r \in d.event_facts : <<r.event_id, r.fact_id>> = pair =>
            IF v.t = "number" THEN r.value = v /\ r.value_text = Null
            ELSE r.value = SqlNull /\ r.value_text = String(v)

PairsOf(rows) == {<<rows[k].event_id, rows[k].fact_id>> : k \in 1..Len(rows)}

\* C20 (as stated): after a pass, the stored value of every pair it fetched is the value
\* it was given for the pair, and no earlier value of the pair is left.
C20_LastFetchWins ==
    last.kind # "none" =>
        \A pair \in PairsOf(GivenSamples(last)) :
            StoredAs(db, pair, LatestFor(GivenSamples(last), pair))

\* C20 (amended): after a pass, the stored value of every pair the pass has written is
\* the value of its latest write of the pair, with no earlier row of the pair left, and
\* every other stored sample is as it was before the pass; a pass that fetched a pair
\* but ended before writing it leaves the earlier value.
C20_LastWriteWins ==
    last.kind # "none" =>
        /\ \A pair \in PairsOf(WrittenSamples(last)) :
                StoredAs(db, pair, LatestFor(WrittenSamples(last), pair))
        /\ \A r \in db.event_facts :
                <<r.event_id, r.fact_id>> \notin PairsOf(WrittenSamples(last)) => r \in last.db0.event_facts
        /\ \A r \in last.db0.event_facts :
                <<r.event_id, r.fact_id>> \notin PairsOf(WrittenSamples(last)) => r \in db.event_facts

\* a pass has written a value for a pair that the store held with another value
C20_Witness ==
    /\ last.outcome = "success"
    /\ \E r0 \in last.db0.event_facts, r \in db.event_facts :
            /\ r.event_id = r0.event_id /\ r.fact_id = r0.fact_id
            /\ r.value # r0.value
            /\ <<r.event_id, r.fact_id>> \in PairsOf(WrittenSamples(last))

\* a step of a trigger that starts no pass and answers: the trigger was turned away
\* by the flag (a year outside 2000..next year is answered 400 before the flag is read)
Rejects ==
    /\ pass' = pass
    /\ reply' # reply
    /\ reply'.trigger \in {"cron", "sync", "syncYear"}
    /\ reply'.code # 400

\* C22: whenever no pass is executing the flag is idle, whatever ended the last pass,
\* and a trigger is turned away by the flag only while a pass is executing.
C22_FlagRelease ==
    /\ [](Executing = {} => ~isSyncing)
    /\ [][Rejects => Executing # {}]_vars

\* a second pass was started after the first had ended, and it has ended by a failure
C22_Witness ==
    /\ nPasses = 2
    /\ last.outcome = "error"
    /\ Executing = {}
    /\ ~isSyncing

\* a step of the cron callback, of POST /sync or of POST /sync-year with a year in range
Trigger == cronTick \/ postSync \/ postSyncYear(2024)

\* C23: a trigger that finds the flag set leaves the flag set, sends no upstream
\* request, writes nothing to the store and leaves the pass in progress as it is, so
\* the next trigger before the end of that pass finds the flag set as well.
C23_RejectionHasNoEffect ==
    [][(isSyncing /\ Trigger) =>
            /\ isSyncing'
            /\ pass' = pass
            /\ db' = db
            /\ nPasses' = nPasses
            /\ Executing # {}]_vars

\* POST /sync-year has been answered "Sync already in progress" while a pass that had
\* gone beyond its first request was executing, and the flag is still set
C23_Witness ==
    /\ reply.trigger = "syncYear" /\ reply.code = 500 /\ reply.busy
    /\ isSyncing
    /\ \E s \in Executing : pass[s].pc # "masterdata"

\* C24: in every state where no pass is executing, every stored sample whose event is
\* stored carries the stored name of that event as its cached label.
C24_CachedLabelConsistency ==
    Executing = {} =>
        \A r \in db.event_facts, e \in db.events :
            e.id = r.event_id => r.event_name = e.name

-----------------------------------------------------------------------------
(* Properties of the queries, checked under SpecQuery *)

\* the first and the last second of a calendar year, as a query range
YearStart(year) == Date(year, 1, 1, 0)
YearEnd(year) == Date(year, 12, 31, 86399)

RECURSIVE SumMonths(_, _)
SumMonths(monthlyData, k) ==
    IF k > Len(monthlyData) THEN 0 ELSE monthlyData[k].value + SumMonths(monthlyData, k + 1)

\* C9: for every metric, year Y, filter set and store, the yearly sum getYearlySum
\* returns for Y equals the sum of the monthly sums getMonthlyAggregateByFact returns
\* for the months of Y under the same filter set.
C9_SumDecomposition ==
    q.kind = "getYearlySum" =>
        q.result.value =
            SumMonths(getMonthlyAggregateByFact(db, q.factId, YearStart(q.year), YearEnd(q.year),
                                                q.eventNames), 1)

\* the points of the same raw or monthly request without a filter
UnfilteredPoints(d, r) ==
    IF r.kind = "raw"
    THEN {<<x.value.n, getTime(x.start_date)>> : x \in getEventFactsByTimeRange(d, r.factId, r.from, r.to)}
    ELSE Elems(monthlyDatapoints(getMonthlyAggregateByFact(d, r.factId, r.from, r.to, <<>>)))

\* the samples of the request's metric and range whose cached label is in the filter
Restricted(d, r) ==
    {j \in Joined(d, r.factId, r.from, r.to) : j.ef.event_name \in Elems(r.eventNames)}

\* C10 (as stated): the datapoints a raw or monthly query returns under a filter set
\* are a subset of the datapoints the same query returns without a filter.
C10_FilterMonotonicity ==
    q.kind \in {"raw", "monthly"} => Elems(q.datapoints) \subseteq UnfilteredPoints(db, q)

\* C10 (amended): under a non-empty filter set F a raw query returns exactly the
\* unfiltered datapoints of the samples whose cached label is in F, a subset of the
\* unfiltered result; a monthly query returns one point for each month that holds such
\* a sample, valued the sum over those samples alone: its months are a subset of the
\* unfiltered months, its points need not be points of the unfiltered result.
C10_FilterRestricts ==
    (q.kind \in {"raw", "monthly"} /\ Len(q.eventNames) > 0) =>
        IF q.kind = "raw"
        THEN /\ Elems(q.datapoints) =
                    {<<x.value.n, getTime(x.start_date)>> :
                        x \in {y \in getEventFactsByTimeRange(db, q.factId, q.from, q.to) :
                                    y.event_name \in Elems(q.eventNames)}}
             /\ Elems(q.datapoints) \subseteq UnfilteredPoints(db, q)
        ELSE /\ {p[2] : p \in Elems(q.datapoints)} \subseteq {p[2] : p \in UnfilteredPoints(db, q)}
             /\ {p[2] : p \in Elems(q.datapoints)} =
                    {monthTimestamp(strftimeYm(j.e.start_date)) : j \in Restricted(db, q)}
             /\ \A p \in Elems(q.datapoints) :
                    p[1] = SumValue({j \in Restricted(db, q) :
                                        monthTimestamp(strftimeYm(j.e.start_date)) = p[2]})

\* a monthly query under a filter has returned a month whose samples carry a label in
\* the filter and a label outside it: the point is no point of the unfiltered result
C10_Witness ==
    /\ q.kind = "monthly"
    /\ Len(q.eventNames) > 0
    /\ q.datapoints # <<>>
    /\ \E p \in Elems(q.datapoints) : p \notin UnfilteredPoints(db, q)

\* the numeric samples of the request's metric whose event starts within the calendar
\* year and, under a filter, whose cached label is in it
SamplesOfYear(d, r, year) ==
    {j \in Joined(d, r.factId, YearStart(year), YearEnd(year)) :
        Len(r.eventNames) > 0 => j.ef.event_name \in Elems(r.eventNames)}

\* C11: in the output of a yearly_sum or yearly_mean query, a calendar year of the
\* requested range without a matching numeric sample (under the filter) has no datapoint
\* at all, in particular no zero-valued one.
C11_ZeroSampleExclusion ==
    q.kind \in {"yearly_sum", "yearly_mean"} =>
        \A year \in getFullYearOf(q.from)..getFullYearOf(q.to) :
            SamplesOfYear(db, q, year) = {} =>
                \A k \in 1..Len(q.datapoints) : q.datapoints[k][2] # yearTimestamp(year)

\* a yearly query over two years has answered with a point for the year that has
\* samples and none for the year that has not
C11_Witness ==
    /\ q.kind \in {"yearly_sum", "yearly_mean"}
    /\ getFullYearOf(q.from) < getFullYearOf(q.to)
    /\ Len(q.datapoints) = 1
    /\ \E year \in getFullYearOf(q.from)..getFullYearOf(q.to) : SamplesOfYear(db, q, year) = {}

\* the stored samples of a metric a raw datapoint can stand for: numeric value, event
\* start at the timestamp of the point and within the range
SamplesAt(d, factId, from, to, p) ==
    { ef \in d.event_facts :
        /\ ef.fact_id = factId
        /\ ef.value.t = "number" /\ ef.value.n = p[1]
        /\ \E e \in d.events :
            /\ e.id = ef.event_id
            /\ getTime(e.start_date) = p[2]
            /\ getTime(from) <= getTime(e.start_date) /\ getTime(e.start_date) <= getTime(to) }

\* C12: the datapoints of every raw query are non-decreasing by timestamp, and each is
\* a stored sample of the metric with a non-null numeric value whose event starts
\* within the requested range.
C12_RawOrdering ==
    q.kind = "raw" =>
        /\ \A a, b \in 1..Len(q.datapoints) : a < b => q.datapoints[a][2] <= q.datapoints[b][2]
        /\ \A k \in 1..Len(q.datapoints) :
                SamplesAt(db, q.factId, q.from, q.to, q.datapoints[k]) # {}

\* a raw query has returned two points at different times while the store holds a
\* sample of the metric that is out of the range or has no numeric value
C12_Witness ==
    /\ q.kind = "raw"
    /\ Len(q.datapoints) = 2
    /\ q.datapoints[1][2] < q.datapoints[2][2]
    /\ \E ef \in db.event_facts :
        /\ ef.fact_id = q.factId
        /\ \A k \in 1..2 : ef \notin SamplesAt(db, q.factId, q.from, q.to, q.datapoints[k])

\* the answers the store d can give to the request r
Answers(d, r) ==
    CASE r.kind = "raw" ->
           {rawDatapoints(rows) : rows \in OrderedBy(rawRows(d, r.factId, r.from, r.to, r.eventNames))}
      [] r.kind = "monthly" ->
           {monthlyDatapoints(getMonthlyAggregateByFact(d, r.factId, r.from, r.to, r.eventNames))}
      [] r.kind = "yearly_sum" ->
           {yearlySumDatapoints(d, r.factId, getFullYearOf(r.from), getFullYearOf(r.to), r.eventNames)}
      [] r.kind = "yearly_mean" ->
           {yearlyMeanDatapoints(d, r.factId, getFullYearOf(r.from), getFullYearOf(r.to), r.eventNames)}
      [] OTHER -> {<<>>}

\* the rows of the payload whose incoming value is a number
IsNumber(row) == row.value.t = "number"
NumbersOnly(P) == [P EXCEPT !.eventFacts = SelectSeq(@, IsNumber)]

\* C21: every stored sample holds exactly one of numeric value and text value, the
\* numeric one with a null text when the incoming value was a number and the text one
\* with a null numeric value otherwise; and every raw, monthly, yearly-sum and
\* yearly-mean answer is the answer of the store without the samples whose incoming
\* value was not a number.
C21_NumericXorText ==
    /\ \A r \in db.event_facts : (r.value # SqlNull) # (r.value_text # Null)
    /\ \A k \in 1..Len(hist.payload.eventFacts) :
        LET in == hist.payload.eventFacts[k] IN
        \E r \in db.event_facts :
            /\ r.event_id = in.event_id /\ r.fact_id = in.fact_id
            /\ IF in.value.t = "number"
               THEN r.value = in.value /\ r.value_text = Null
               ELSE r.value = SqlNull /\ r.value_text = String(in.value)
    /\ q.kind \in {"raw", "monthly", "yearly_sum", "yearly_mean"} =>
            q.datapoints \in Answers(ApplyPayload(EmptyDb, NumbersOnly(hist.payload), 0), q)
    /\ q.kind = "getYearlySum" =>
            q.result = getYearlySum(ApplyPayload(EmptyDb, NumbersOnly(hist.payload), 0),
                                    q.factId, q.year, q.eventNames)

\* a yearly query has been answered over a store that holds a text sample of the
\* metric in the range besides a numeric one
C21_Witness ==
    /\ q.kind \in {"monthly", "yearly_sum", "yearly_mean"}
    /\ q.datapoints # <<>>
    /\ \E r \in db.event_facts, e \in db.events :
            /\ r.fact_id = q.factId /\ r.value = SqlNull /\ r.value_text = "x"
            /\ e.id = r.event_id
            /\ getTime(q.from) <= getTime(e.start_date) /\ getTime(e.start_date) <= getTime(q.to)
            /\ Len(q.eventNames) > 0 => r.event_name \in Elems(q.eventNames)

-----------------------------------------------------------------------------
(* Properties of the query handler, checked under SpecRequest *)

\* the positions of the request's targets that match the pattern / that do not
ValidTargets(r) == {k \in 1..Len(r.targets) : match(r.targets[k].target)}
MalformedTargets(r) == {k \in 1..Len(r.targets) : ~match(r.targets[k].target)}

\* the target at position k yields at least one datapoint for the range of the request
Produces(d, r, k) ==
    \E e \in targetEntries(d, r.targets[k], k, r.from, r.to) : Len(e.datapoints) > 0

EntriesOf(r, k) == {n \in 1..Len(r.results) : r.results[n].index = k}

\* C13: a target whose key does not match fact_<id>_<kind> contributes no entry to the
\* response and raises no error (an error answer is only ever due to a matching target
\* with a range that is no date), and the matching targets of the same request that
\* yield datapoints are answered.
C13_MalformedTargetSkipped ==
    q.kind = "query" =>
        /\ \A k \in MalformedTargets(q) : EntriesOf(q, k) = {}
        /\ q.status = 500 => (ValidTargets(q) # {} /\ (toISOStringThrows(q.from) \/ toISOStringThrows(q.to)))
        /\ q.status # 500 =>
                /\ q.status = 200
                /\ \A k \in ValidTargets(q) : Produces(db, q, k) => EntriesOf(q, k) # {}

\* a request whose first target is malformed and whose second target matches has been
\* answered with the entry of the second
C13_Witness ==
    /\ q.kind = "query"
    /\ Len(q.targets) = 2
    /\ 1 \in MalformedTargets(q) /\ 2 \in ValidTargets(q)
    /\ q.status = 200
    /\ Len(q.results) = 1 /\ q.results[1].index = 2

\* C14: the response of a query holds exactly one entry for every matching target that
\* produced at least one datapoint, none for a matching target that produced none, and
\* no entry with an empty list of datapoints.
C14_NoEmptySeries ==
    q.kind = "query" =>
        /\ \A n \in 1..Len(q.results) :
                /\ q.results[n].datapoints # <<>>
                /\ q.results[n].index \in ValidTargets(q)
        /\ q.status = 200 =>
                \A k \in ValidTargets(q) :
                    Cardinality(EntriesOf(q, k)) = IF Produces(db, q, k) THEN 1 ELSE 0
        /\ q.status # 200 => q.results = <<>>

\* a request with two matching targets, one with datapoints and one without, has been
\* answered with the one entry
C14_Witness ==
    /\ q.kind = "query"
    /\ q.status = 200
    /\ ValidTargets(q) = {1, 2}
    /\ \E k \in {1, 2} : Produces(db, q, k) /\ ~Produces(db, q, 3 - k)
    /\ Len(q.results) = 1

====
